---- MODULE Spec2Model ----
(***************************************************************************)
(* mysqlquerydump: one query's result rows streamed to an output sink as   *)
(* JSON lines, CSV records or batched SQL INSERT statements.               *)
(*                                                                         *)
(* The model follows src/mysqlquerydump.go.  Byte strings are sequences of *)
(* byte values (0..255); every text the program writes is spelled out as   *)
(* its ASCII bytes, so that buffer lengths are the lengths the program     *)
(* compares with its threshold.  A bytes.Buffer is the sequence of the     *)
(* strings written into it (one "chunk" per WriteString call or group of   *)
(* calls); its Len() is the sum of the chunks' byte lengths.               *)
(*                                                                         *)
(* The row cursor (database/sql.Rows) and the output sink (os.Stdout) are  *)
(* external: they are modelled by their contract.  rows.Next() delivers a  *)
(* row, reports exhaustion, or fails (it then returns false and keeps the  *)
(* failure for rows.Err()); rows.Scan() copies the row into the            *)
(* destinations or returns an error; out.Write() succeeds or fails, and a  *)
(* sink that has failed once keeps failing (a closed pipe, a full disk).   *)
(* rows.Columns() on the fresh result of stmt.Query() and json.Marshal of  *)
(* driver values do not fail, so the returns of lines 196-198, 224-226,    *)
(* 237-239 and 291-293 are not modelled.                                   *)
(***************************************************************************)
EXTENDS Integers, Sequences, FiniteSets, TLC

VARIABLES
    pc,                     \* position of the program
    format,                 \* argv.Format
    alias,                  \* outSql parameter (argv.Alias)
    insertIgnore,           \* outSql parameter
    onDuplicateKeyUpdate,   \* outSql parameter
    batchSize,              \* outSql parameter (kibibytes)
    fetched,                \* the rows rows.Next() has delivered, in order
    nextCalls,              \* number of rows.Next() calls made
    cursorErr,              \* "" | "next" | "scan": the cursor failure, if any
    result,                 \* the Scan destinations (reused for every row)
    sqlBuffer,              \* outSql: bytes.Buffer, as a sequence of chunks
    printComa,              \* outSql: the comma flag
    mapped,                 \* outJson: the map reused for every row
    record,                 \* outCsv: the record built for the current row
    csvBuf,                 \* outCsv: bytes held by the csv.Writer's bufio.Writer
    csvErr,                 \* outCsv: the bufio.Writer's sticky error
    out,                    \* the sink: every Write call, with its outcome
    ret,                    \* "" while running, then "nil" or the error returned
    outAtCursorErr,         \* Len(out) when the cursor failed (-1: it has not)
    nextAtSinkErr,          \* nextCalls when the sink first failed (-1: it has not)
    escIn,                  \* escapeString: the argument
    escOut,                 \* escapeString: the returned slice
    sources,                \* getDbOptions: the two files and the arguments
    options                 \* getDbOptions: the options returned

vars == <<pc, format, alias, insertIgnore, onDuplicateKeyUpdate, batchSize,
          fetched, nextCalls, cursorErr, result, sqlBuffer, printComa, mapped,
          record, csvBuf, csvErr, out, ret, outAtCursorErr, nextAtSinkErr,
          escIn, escOut, sources, options>>

---------------------------------------------------------------------------
(* Bounds of the model *)

\* At most this many rows are delivered by the cursor.
MaxRows == 3
\* Length of the long text cell: a row holding it is longer than a kibibyte,
\* two such rows reach two kibibytes, and three such CSV records overflow
\* the CSV writer's buffer.
PadLen == 1370
\* Longest byte string escapeString is applied to on its own.
MaxLen == 3

---------------------------------------------------------------------------
(* Generic helpers on sequences *)

RECURSIVE SumLen(_)
SumLen(chunks) == IF chunks = <<>> THEN 0 ELSE Len(Head(chunks).b) + SumLen(Tail(chunks))

RECURSIVE Join(_, _)
Join(ss, sep) ==
    IF ss = <<>> THEN <<>>
    ELSE IF Len(ss) = 1 THEN ss[1]
    ELSE ss[1] \o sep \o Join(Tail(ss), sep)

RECURSIVE SeqsUpTo(_, _)
SeqsUpTo(S, n) ==
    IF n = 0 THEN {<<>>}
    ELSE LET shorter == SeqsUpTo(S, n - 1)
         IN shorter \cup {Append(s, x) : s \in {t \in shorter : Len(t) = n - 1}, x \in S}

---------------------------------------------------------------------------
(* Texts of the program, as ASCII bytes *)

\* "SET @OLD_CHARACTER_SET_CLIENT=@@CHARACTER_SET_CLIENT;\n"
SetOldCharacterSetClient == <<83, 69, 84, 32, 64, 79, 76, 68, 95, 67, 72, 65, 82, 65, 67, 84, 69, 82, 95, 83, 69, 84, 95, 67, 76, 73, 69, 78, 84, 61, 64, 64, 67, 72, 65, 82, 65, 67, 84, 69, 82, 95, 83, 69, 84, 95, 67, 76, 73, 69, 78, 84, 59, 10>>
\* "SET @OLD_CHARACTER_SET_RESULTS=@@CHARACTER_SET_RESULTS;\n"
SetOldCharacterSetResults == <<83, 69, 84, 32, 64, 79, 76, 68, 95, 67, 72, 65, 82, 65, 67, 84, 69, 82, 95, 83, 69, 84, 95, 82, 69, 83, 85, 76, 84, 83, 61, 64, 64, 67, 72, 65, 82, 65, 67, 84, 69, 82, 95, 83, 69, 84, 95, 82, 69, 83, 85, 76, 84, 83, 59, 10>>
\* "SET @OLD_COLLATION_CONNECTION=@@COLLATION_CONNECTION;\n"
SetOldCollationConnection == <<83, 69, 84, 32, 64, 79, 76, 68, 95, 67, 79, 76, 76, 65, 84, 73, 79, 78, 95, 67, 79, 78, 78, 69, 67, 84, 73, 79, 78, 61, 64, 64, 67, 79, 76, 76, 65, 84, 73, 79, 78, 95, 67, 79, 78, 78, 69, 67, 84, 73, 79, 78, 59, 10>>
\* "SET NAMES " + options.Charset + ";\n", options.Charset being "utf8" (line 181)
SetNames == <<83, 69, 84, 32, 78, 65, 77, 69, 83, 32>> \o <<117, 116, 102, 56>> \o <<59, 10>>
\* "\n"
NewLine == <<10>>
\* "SET CHARACTER_SET_CLIENT=@OLD_CHARACTER_SET_CLIENT;\n"
RestoreCharacterSetClient == <<83, 69, 84, 32, 67, 72, 65, 82, 65, 67, 84, 69, 82, 95, 83, 69, 84, 95, 67, 76, 73, 69, 78, 84, 61, 64, 79, 76, 68, 95, 67, 72, 65, 82, 65, 67, 84, 69, 82, 95, 83, 69, 84, 95, 67, 76, 73, 69, 78, 84, 59, 10>>
\* "SET CHARACTER_SET_RESULTS=@OLD_CHARACTER_SET_RESULTS;\n"
RestoreCharacterSetResults == <<83, 69, 84, 32, 67, 72, 65, 82, 65, 67, 84, 69, 82, 95, 83, 69, 84, 95, 82, 69, 83, 85, 76, 84, 83, 61, 64, 79, 76, 68, 95, 67, 72, 65, 82, 65, 67, 84, 69, 82, 95, 83, 69, 84, 95, 82, 69, 83, 85, 76, 84, 83, 59, 10>>
\* "SET COLLATION_CONNECTION=@OLD_COLLATION_CONNECTION;\n"
RestoreCollationConnection == <<83, 69, 84, 32, 67, 79, 76, 76, 65, 84, 73, 79, 78, 95, 67, 79, 78, 78, 69, 67, 84, 73, 79, 78, 61, 64, 79, 76, 68, 95, 67, 79, 76, 76, 65, 84, 73, 79, 78, 95, 67, 79, 78, 78, 69, 67, 84, 73, 79, 78, 59, 10>>

\* "NULL"
NullKeyword == <<78, 85, 76, 76>>
\* ",\n"
TupleSeparator == <<44, 10>>
\* ";\n"
StatementTerminator == <<59, 10>>
\* "'"
Quote == <<39>>

---------------------------------------------------------------------------
(* Cell values: what rows.Scan stores in an interface{} destination *)

\* nil (a NULL column), []byte (a text or binary column), int64 (a scalar)
NilValue == [t |-> "nil", b |-> <<>>, n |-> 0]
BytesValue(b) == [t |-> "bytes", b |-> b, n |-> 0]
Int64Value(n) == [t |-> "int64", b |-> <<>>, n |-> n]

\* The query's columns: `id`, `a`, `b`, `c`
columns == << <<105, 100>>, <<97>>, <<98>>, <<99>> >>

Pad == [j \in 1..PadLen |-> 97] \o <<>>

\* The rows the cursor may deliver.  Between them they hold a NULL and a
\* value other than NULL at every position, every byte escapeString rewrites,
\* the CSV delimiter, and a cell long enough to reach the thresholds.
\*   (12, "O'B", NULL, "\n\\" NUL "\"\r" 0x1A ",")
\*   (NULL, NULL, "aaa...a", NULL)
RowChoices ==
    { << Int64Value(12), BytesValue(<<79, 39, 66>>), NilValue,
         BytesValue(<<10, 92, 0, 34, 13, 26, 44>>) >>,
      << NilValue, NilValue, BytesValue(Pad), NilValue >> }

---------------------------------------------------------------------------
(* escapeString *)

\* The state of the loop of escapeString: the write index i (0-based) and
\* whether an indexed write was out of range (a panic).  The writes are all
\* made at index i, which then moves on by one, so the slice is followed as
\* the bytes written to it in order: written holds those of the part of the
\* loop at hand, and newBytes[0:i] is what the whole loop has written.
EscapeState(written, i, panic) == [written |-> written, i |-> i, panic |-> panic]

\* newBytes[i] = c; i++, the slice having cap elements
PutByte(st, c, cap) ==
    IF st.panic \/ st.i >= cap
    THEN EscapeState(st.written, st.i, TRUE)
    ELSE EscapeState(Append(st.written, c), st.i + 1, FALSE)

\* Variant of escapeStep that leaves a backslash as it is.
escapeStepKeepBackslash(st, char, cap) ==
    LET escape == char \in {0, 10, 13, 39, 34, 26}
        c == CASE char = 0 -> 48
               [] char = 10 -> 110
               [] char = 13 -> 114
               [] char = 26 -> 90
               [] OTHER -> char
    IN PutByte(IF escape THEN PutByte(st, 92, cap) ELSE st, c, cap)

\* Variant of escapeStep that leaves a single quote as it is.
escapeStepKeepQuote(st, char, cap) ==
    LET escape == char \in {0, 10, 13, 92, 34, 26}
        c == CASE char = 0 -> 48
               [] char = 10 -> 110
               [] char = 13 -> 114
               [] char = 26 -> 90
               [] OTHER -> char
    IN PutByte(IF escape THEN PutByte(st, 92, cap) ELSE st, c, cap)

\* Lines 98-124: one iteration of the loop, on the byte char
escapeStep(st, char, cap) ==
    LET escape == char \in {0, 10, 13, 92, 39, 34, 26}
        c == CASE char = 0 -> 48
               [] char = 10 -> 110
               [] char = 13 -> 114
               [] char = 26 -> 90
               [] OTHER -> char
    IN PutByte(IF escape THEN PutByte(st, 92, cap) ELSE st, c, cap)

\* The range loop of line 97 over bytes[lo..hi], entered with write index i0:
\* the body is applied to the bytes in order, and a panic ends the loop (the
\* range is split in halves only to keep the evaluation shallow).
RECURSIVE escapeLoop(_, _, _, _, _)
escapeLoop(bytes, lo, hi, i0, cap) ==
    IF lo > hi THEN EscapeState(<<>>, i0, FALSE)
    ELSE IF lo = hi THEN escapeStep(EscapeState(<<>>, i0, FALSE), bytes[lo], cap)
    ELSE LET mid == (lo + hi) \div 2
             left == escapeLoop(bytes, lo, mid, i0, cap)
         IN IF left.panic THEN left
            ELSE LET right == escapeLoop(bytes, mid + 1, hi, left.i, cap)
                 IN EscapeState(left.written \o right.written, right.i, right.panic)

\* Variant of escapeRun that allocates len(*bytes) bytes only.
escapeRunShort(bytes) == escapeLoop(bytes, 1, Len(bytes), 0, Len(bytes))

\* make([]byte, len(*bytes)*2), i := 0, the loop
escapeRun(bytes) == escapeLoop(bytes, 1, Len(bytes), 0, 2 * Len(bytes))

\* newBytes[0:i]
escapeString(bytes) == escapeRun(bytes).written

---------------------------------------------------------------------------
(* outSql: the texts built once, and the rendering of a row *)

\* A chunk of a buffer or of a write: its kind, its bytes and, for a chunk
\* built from a row, the rendering of each cell.
Chunk(k, b, parts) == [k |-> k, b |-> b, parts |-> parts]

\* One kibibyte, the unit of the batch-size parameter
KiB == 1024

\* Variant of sqlBatchSize that takes the parameter as a number of bytes.
sqlBatchSizeNoScale(bs) == bs

\* Variant of sqlBatchSize that takes the parameter as a number of 2048 bytes.
sqlBatchSizeDoubled(bs) == 2 * KiB * bs

\* Variant of sqlBatchSize that takes a parameter of zero or less as a
\* threshold of a mebibyte.
sqlBatchSizeDefaulted(bs) == IF bs <= 0 THEN KiB * KiB ELSE KiB * bs

\* Line 306: int(math.Floor(1024 * float64(batchSize)))
sqlBatchSize(bs) == KiB * bs

\* "`" + strings.Join(columns, "`, `") + "`"
fields == <<96>> \o Join(columns, <<96, 44, 32, 96>>) \o <<96>>

\* "INSERT " + ignoreStatement + "INTO `" + alias + "` (" + fields + ") VALUES\n"
insertHeader(al, ignore) ==
    <<73, 78, 83, 69, 82, 84, 32>>
    \o (IF ignore THEN <<73, 71, 78, 79, 82, 69, 32>> ELSE <<>>)
    \o <<73, 78, 84, 79, 32, 96>> \o al \o <<96, 32, 40>> \o fields
    \o <<41, 32, 86, 65, 76, 85, 69, 83, 10>>

\* The loop of lines 317-322 from column i on:
\* "`" + value + "` = VALUES(`" + value + "`)", then ",\n" but after the last
RECURSIVE onDuplicateLoop(_)
onDuplicateLoop(i) ==
    IF i > Len(columns) THEN <<>>
    ELSE <<96>> \o columns[i] \o <<96, 32, 61, 32, 86, 65, 76, 85, 69, 83, 40, 96>>
         \o columns[i] \o <<96, 41>>
         \o (IF i - 1 < Len(columns) - 1 THEN <<44, 10>> ELSE <<>>)
         \o onDuplicateLoop(i + 1)

\* "\nON DUPLICATE KEY UPDATE\n" followed by the assignments
onDuplicateStatement ==
    <<10, 79, 78, 32, 68, 85, 80, 76, 73, 67, 65, 84, 69, 32, 75, 69, 89, 32, 85, 80, 68, 65, 84, 69, 10>>
    \o onDuplicateLoop(1)

\* fmt.Sprintf("%v", value) of an int64: its decimal digits
RECURSIVE Digits(_)
Digits(n) == IF n < 10 THEN <<48 + n>> ELSE Append(Digits(n \div 10), 48 + (n % 10))

Sprintf(value) == IF value.n < 0 THEN <<45>> \o Digits(-value.n) ELSE Digits(value.n)

\* Variant of sqlLiteral that writes a NULL as a quoted string.
sqlLiteralQuoteNil(value) ==
    CASE value.t = "bytes" -> Quote \o escapeString(value.b) \o Quote
      [] value.t = "nil" -> Quote \o NullKeyword \o Quote
      [] OTHER -> Sprintf(value)

\* The switch of lines 351-359: what is written for one cell
sqlLiteral(value) ==
    CASE value.t = "bytes" -> Quote \o escapeString(value.b) \o Quote
      [] value.t = "nil" -> NullKeyword
      [] OTHER -> Sprintf(value)

\* Lines 349-365: "(", the cells with ", " after each but the last, ")";
\* lits holds what the switch writes for each cell
RECURSIVE tupleLoop(_, _)
tupleLoop(lits, i) ==
    IF i > Len(lits) THEN <<>>
    ELSE lits[i]
         \o (IF i - 1 < Len(columns) - 1 THEN <<44, 32>> ELSE <<>>)
         \o tupleLoop(lits, i + 1)

renderTuple(res) ==
    LET lits == [i \in 1..Len(res) |-> sqlLiteral(res[i])] \o <<>>
    IN Chunk("tuple", <<40>> \o tupleLoop(lits, 1) \o <<41>>, lits)

\* sqlBuffer.Len()
BufLen(buf) == SumLen(buf)

---------------------------------------------------------------------------
(* The output sink *)

SinkBroken(o) == \E i \in DOMAIN o : ~o[i].ok

\* The Write calls items (each the data and the source line of the call)
\* made in a row on the sink whose log is o; the first f of them succeed.
WriteAll(o, items, f) ==
    o \o [i \in 1..Len(items) |->
            [data |-> items[i].data, at |-> items[i].at, ok |-> i <= f]]

\* How many of n writes in a row may succeed: any number while the sink
\* works, none once it has failed.
Outcomes(o, n) == IF SinkBroken(o) THEN {0} ELSE 0..n

Item(data, at) == [data |-> data, at |-> at]

\* nextAtSinkErr after the sink's log has become o
SinkErrSeen(o) ==
    IF nextAtSinkErr = -1 /\ SinkBroken(o) THEN nextCalls ELSE nextAtSinkErr

---------------------------------------------------------------------------
(* The row cursor *)

\* rows.Next() as the condition of a row loop: a row is delivered and the
\* body runs, or the rows are exhausted, or the cursor fails; in the last two
\* cases Next returns false and the loop ends.
CursorNext(bodyPc, endPc) ==
    /\ nextCalls' = nextCalls + 1
    /\ \/ /\ Len(fetched) < MaxRows
          /\ \E row \in RowChoices : fetched' = Append(fetched, row)
          /\ pc' = bodyPc
          /\ UNCHANGED <<cursorErr, outAtCursorErr>>
       \/ /\ pc' = endPc
          /\ UNCHANGED <<fetched, cursorErr, outAtCursorErr>>
       \/ /\ pc' = endPc
          /\ cursorErr' = "next"
          /\ outAtCursorErr' = Len(out)
          /\ UNCHANGED fetched

\* rows.Scan(dest...) returning an error: the encoder returns it.
ScanFails ==
    /\ cursorErr' = "scan"
    /\ outAtCursorErr' = Len(out)
    /\ ret' = "scan error"
    /\ pc' = "done"

\* The row rows.Scan copies into the destinations
CurrentRow == fetched[Len(fetched)]

\* make([]interface{}, len(columns))
NoValues == [i \in 1..Len(columns) |-> NilValue]

---------------------------------------------------------------------------
(* mysqlquerydump: the checks on the format and the dispatch *)

Formats == {"", "json", "csv", "sql", "xml"}
Aliases == {<<>>, <<116>>}
BatchSizes == {-1, 0, 1, 2}

encoderVars == <<fetched, nextCalls, cursorErr, result, sqlBuffer, printComa,
                 mapped, record, csvBuf, csvErr, out, outAtCursorErr,
                 nextAtSinkErr, escIn, escOut, sources, options>>
sqlParams == <<alias, insertIgnore, onDuplicateKeyUpdate, batchSize>>

\* Lines 434-436
FormatMissing ==
    /\ pc = "main"
    /\ format' = ""
    /\ ret' = "format required"
    /\ pc' = "done"
    /\ UNCHANGED <<encoderVars, sqlParams>>

\* Lines 469-471
DispatchJson ==
    /\ pc = "main"
    /\ format' = "json"
    /\ pc' = "json"
    /\ UNCHANGED <<encoderVars, sqlParams, ret>>

\* Lines 472-473
DispatchCsv ==
    /\ pc = "main"
    /\ format' = "csv"
    /\ pc' = "csv"
    /\ UNCHANGED <<encoderVars, sqlParams, ret>>

\* Lines 474-475
DispatchSql ==
    /\ pc = "main"
    /\ format' = "sql"
    /\ pc' = "sql"
    /\ \E al \in Aliases, ig \in BOOLEAN, od \in BOOLEAN, bs \in BatchSizes :
          /\ alias' = al
          /\ insertIgnore' = ig
          /\ onDuplicateKeyUpdate' = od
          /\ batchSize' = bs
    /\ UNCHANGED <<encoderVars, ret>>

\* Variant of DispatchUnknown in which the default case runs the JSON encoder.
DispatchUnknownEncodes ==
    /\ pc = "main"
    /\ \E f \in Formats \ {"", "json", "csv", "sql"} : format' = f
    /\ pc' = "json"
    /\ UNCHANGED <<encoderVars, sqlParams, ret>>

\* Lines 476-477
DispatchUnknown ==
    /\ pc = "main"
    /\ \E f \in Formats \ {"", "json", "csv", "sql"} : format' = f
    /\ ret' = "unknown format"
    /\ pc' = "done"
    /\ UNCHANGED <<encoderVars, sqlParams>>

---------------------------------------------------------------------------
(* outSql *)

\* The five writes of lines 324-330
Preamble ==
    << Item(<<Chunk("set", SetOldCharacterSetClient, <<>>)>>, 324),
       Item(<<Chunk("set", SetOldCharacterSetResults, <<>>)>>, 325),
       Item(<<Chunk("set", SetOldCollationConnection, <<>>)>>, 326),
       Item(<<Chunk("set", SetNames, <<>>)>>, 327),
       Item(<<Chunk("newline", NewLine, <<>>)>>, 330) >>

\* Variant of Postamble: the session variables are not restored.
PostambleNone == <<>>

\* The four writes of lines 389-393
Postamble ==
    << Item(<<Chunk("newline", NewLine, <<>>)>>, 389),
       Item(<<Chunk("restore", RestoreCharacterSetClient, <<>>)>>, 391),
       Item(<<Chunk("restore", RestoreCharacterSetResults, <<>>)>>, 392),
       Item(<<Chunk("restore", RestoreCollationConnection, <<>>)>>, 393) >>

\* Variant of Finalize that writes the clause whatever the option.
FinalizeAlways(buf) ==
    Append(Append(buf, Chunk("onduplicate", onDuplicateStatement, <<>>)),
           Chunk("terminator", StatementTerminator, <<>>))

\* Lines 368-371 and 382-385: the statement is closed
Finalize(buf) ==
    Append(IF onDuplicateKeyUpdate
           THEN Append(buf, Chunk("onduplicate", onDuplicateStatement, <<>>))
           ELSE buf,
           Chunk("terminator", StatementTerminator, <<>>))

\* Variant of AppendRow that writes the separator whatever the comma flag.
AppendRowAlwaysComa(buf, coma, res) ==
    LET b1 == IF BufLen(buf) = 0
              THEN Append(buf, Chunk("header", insertHeader(alias, insertIgnore), <<>>))
              ELSE buf
    IN Append(Append(b1, Chunk("separator", TupleSeparator, <<>>)), renderTuple(res))

\* Lines 341-365: the header if the buffer is empty, the separator if the
\* comma flag is set, the tuple of the row
AppendRow(buf, coma, res) ==
    LET b1 == IF BufLen(buf) = 0
              THEN Append(buf, Chunk("header", insertHeader(alias, insertIgnore), <<>>))
              ELSE buf
        b2 == IF coma THEN Append(b1, Chunk("separator", TupleSeparator, <<>>)) ELSE b1
    IN Append(b2, renderTuple(res))

\* Variant of SqlBegin that checks the alias after the writes of lines 324-330.
SqlBeginCheckLate ==
    /\ pc = "sql"
    /\ result' = NoValues
    /\ \E f \in Outcomes(out, Len(Preamble)) :
          /\ out' = WriteAll(out, Preamble, f)
          /\ nextAtSinkErr' = SinkErrSeen(out')
    /\ IF alias = <<>>
       THEN ret' = "alias required" /\ pc' = "done"
       ELSE pc' = "sql_next" /\ UNCHANGED ret
    /\ UNCHANGED <<format, sqlParams, fetched, nextCalls, cursorErr, sqlBuffer,
                   printComa, mapped, record, csvBuf, csvErr, outAtCursorErr,
                   escIn, escOut, sources, options>>

\* Lines 290-330: up to the row loop
SqlBegin ==
    /\ pc = "sql"
    /\ result' = NoValues
    /\ \/ /\ alias = <<>>
          /\ ret' = "alias required"
          /\ pc' = "done"
          /\ UNCHANGED <<out, nextAtSinkErr>>
       \/ /\ alias # <<>>
          /\ \E f \in Outcomes(out, Len(Preamble)) :
                /\ out' = WriteAll(out, Preamble, f)
                /\ nextAtSinkErr' = SinkErrSeen(out')
          /\ pc' = "sql_next"
          /\ UNCHANGED ret
    /\ UNCHANGED <<format, sqlParams, fetched, nextCalls, cursorErr, sqlBuffer,
                   printComa, mapped, record, csvBuf, csvErr, outAtCursorErr,
                   escIn, escOut, sources, options>>

\* Line 335: rows.Next()
SqlNext ==
    /\ pc = "sql_next"
    /\ CursorNext("sql_row", "sql_end")
    /\ UNCHANGED <<format, sqlParams, result, sqlBuffer, printComa, mapped, record,
                   csvBuf, csvErr, out, ret, nextAtSinkErr, escIn, escOut, sources, options>>

\* Lines 336-378: the body of the row loop
SqlRow ==
    /\ pc = "sql_row"
    /\ \/ /\ ScanFails
          /\ UNCHANGED <<result, sqlBuffer, printComa, out, nextAtSinkErr>>
       \/ /\ result' = CurrentRow
          /\ LET buf == AppendRow(sqlBuffer, printComa, CurrentRow)
             IN IF BufLen(buf) >= sqlBatchSize(batchSize)
                THEN /\ \E f \in Outcomes(out, 1) :
                           /\ out' = WriteAll(out, <<Item(Finalize(buf), 372)>>, f)
                           /\ nextAtSinkErr' = SinkErrSeen(out')
                     /\ sqlBuffer' = <<>>
                     /\ printComa' = FALSE
                ELSE /\ sqlBuffer' = buf
                     /\ printComa' = TRUE
                     /\ UNCHANGED <<out, nextAtSinkErr>>
          /\ pc' = "sql_next"
          /\ UNCHANGED <<cursorErr, outAtCursorErr, ret>>
    /\ UNCHANGED <<format, sqlParams, fetched, nextCalls, mapped, record, csvBuf,
                   csvErr, escIn, escOut, sources, options>>

\* Lines 381-395: after the row loop
SqlEnd ==
    /\ pc = "sql_end"
    /\ LET last == IF BufLen(sqlBuffer) > 0
                   THEN <<Item(Finalize(sqlBuffer), 386)>>
                   ELSE <<>>
       IN \E f \in Outcomes(out, Len(last) + Len(Postamble)) :
             /\ out' = WriteAll(out, last \o Postamble, f)
             /\ nextAtSinkErr' = SinkErrSeen(out')
             \* bytes.Buffer.WriteTo empties the buffer when the write succeeds
             /\ sqlBuffer' = IF last = <<>> THEN sqlBuffer
                             ELSE IF f >= 1 THEN <<>> ELSE Finalize(sqlBuffer)
    /\ ret' = "nil"
    /\ pc' = "done"
    /\ UNCHANGED <<format, sqlParams, fetched, nextCalls, cursorErr, result, printComa,
                   mapped, record, csvBuf, csvErr, outAtCursorErr, escIn, escOut, sources, options>>

---------------------------------------------------------------------------
(* outJson *)

\* string(value.([]byte)): a Go string holding the same bytes
StringValue(b) == [t |-> "string", b |-> b, n |-> 0]

\* Variant of jsonCell that leaves the map's entry alone for a NULL.
jsonCellKeepOld(m, key, value) ==
    CASE value.t = "bytes" -> StringValue(value.b)
      [] value.t = "nil" /\ key \in DOMAIN m -> m[key]
      [] OTHER -> value

\* Lines 215-220: the value stored in the map for one cell
jsonCell(m, key, value) ==
    CASE value.t = "bytes" -> StringValue(value.b)
      [] OTHER -> value

\* mapped[key] = v
MapSet(m, key, v) == [x \in (DOMAIN m) \cup {key} |-> IF x = key THEN v ELSE m[x]]

\* The loop of lines 214-221 from column i on
RECURSIVE mapLoop(_, _, _)
mapLoop(m, res, i) ==
    IF i > Len(res) THEN m
    ELSE mapLoop(MapSet(m, columns[i], jsonCell(m, columns[i], res[i])), res, i + 1)

\* encoding/json: a string, with the escapes of the standard encoder
\* (HTML-safe) for the ASCII bytes
HexDigit(d) == IF d < 10 THEN 48 + d ELSE 87 + d

jsonByte(c) ==
    CASE c = 34 -> <<92, 34>>
      [] c = 92 -> <<92, 92>>
      [] c = 10 -> <<92, 110>>
      [] c = 13 -> <<92, 114>>
      [] c = 9 -> <<92, 116>>
      [] c < 32 \/ c \in {60, 62, 38} ->
            <<92, 117, 48, 48, HexDigit(c \div 16), HexDigit(c % 16)>>
      [] OTHER -> <<c>>

RECURSIVE jsonStringLoop(_, _, _)
jsonStringLoop(b, lo, hi) ==
    IF lo > hi THEN <<>>
    ELSE IF lo = hi THEN jsonByte(b[lo])
    ELSE LET mid == (lo + hi) \div 2
         IN jsonStringLoop(b, lo, mid) \o jsonStringLoop(b, mid + 1, hi)

jsonString(b) == <<34>> \o jsonStringLoop(b, 1, Len(b)) \o <<34>>

\* encoding/json: nil is null, a string is quoted, an int64 is its digits
jsonValue(v) ==
    CASE v.t = "string" -> jsonString(v.b)
      [] v.t = "nil" -> <<110, 117, 108, 108>>
      [] OTHER -> Sprintf(v)

\* Byte-wise order of strings, the order in which json.Marshal writes map keys
LexLess(a, b) ==
    \E i \in 1..Len(b) :
        /\ \A j \in 1..(i - 1) : j <= Len(a) /\ a[j] = b[j]
        /\ (i > Len(a) \/ a[i] < b[i])

RECURSIVE SortKeys(_)
SortKeys(S) ==
    IF S = {} THEN <<>>
    ELSE LET least == CHOOSE x \in S : \A y \in S \ {x} : LexLess(x, y)
         IN <<least>> \o SortKeys(S \ {least})

\* json.Marshal(mapped): one object, its keys sorted; parts holds each key
\* with the text of its value
Marshal(m) ==
    LET keys == SortKeys(DOMAIN m)
        members == [i \in 1..Len(keys) |-> jsonString(keys[i]) \o <<58>> \o jsonValue(m[keys[i]])]
    IN Chunk("json", <<123>> \o Join(members, <<44>>) \o <<125>>,
             [i \in 1..Len(keys) |-> <<keys[i], jsonValue(m[keys[i]])>>])

\* Lines 195-207
JsonBegin ==
    /\ pc = "json"
    /\ result' = NoValues
    /\ mapped' = [x \in {} |-> NilValue]
    /\ pc' = "json_next"
    /\ UNCHANGED <<format, sqlParams, fetched, nextCalls, cursorErr, sqlBuffer,
                   printComa, record, csvBuf, csvErr, out, ret, outAtCursorErr,
                   nextAtSinkErr, escIn, escOut, sources, options>>

\* Line 208: rows.Next()
JsonNext ==
    /\ pc = "json_next"
    /\ CursorNext("json_row", "json_end")
    /\ UNCHANGED <<format, sqlParams, result, sqlBuffer, printComa, mapped, record,
                   csvBuf, csvErr, out, ret, nextAtSinkErr, escIn, escOut, sources, options>>

\* Lines 209-229: the body of the row loop
JsonRow ==
    /\ pc = "json_row"
    /\ \/ /\ ScanFails
          /\ UNCHANGED <<result, mapped, out, nextAtSinkErr>>
       \/ /\ result' = CurrentRow
          /\ mapped' = mapLoop(mapped, CurrentRow, 1)
          /\ \E f \in Outcomes(out, 2) :
                /\ out' = WriteAll(out, << Item(<<Marshal(mapped')>>, 228),
                                           Item(<<Chunk("newline", NewLine, <<>>)>>, 229) >>, f)
                /\ nextAtSinkErr' = SinkErrSeen(out')
          /\ pc' = "json_next"
          /\ UNCHANGED <<cursorErr, outAtCursorErr, ret>>
    /\ UNCHANGED <<format, sqlParams, fetched, nextCalls, sqlBuffer, printComa, record,
                   csvBuf, csvErr, escIn, escOut, sources, options>>

\* Line 232
JsonEnd ==
    /\ pc = "json_end"
    /\ ret' = "nil"
    /\ pc' = "done"
    /\ UNCHANGED <<format, sqlParams, encoderVars>>

---------------------------------------------------------------------------
(* outCsv *)

\* The size of the bufio.Writer that csv.NewWriter(out) creates
BufioSize == 4 * KiB

\* Lines 258-265: the field of the record for one cell
csvField(value) ==
    CASE value.t = "bytes" -> value.b
      [] value.t = "nil" -> <<>>
      [] OTHER -> Sprintf(value)

\* encoding/csv: a field is quoted when it holds the delimiter, a quote, a
\* CR or LF, starts with a space, or is \.
fieldNeedsQuotes(field) ==
    /\ field # <<>>
    /\ \/ field = <<92, 46>>
       \/ \E i \in 1..Len(field) : field[i] \in {44, 34, 13, 10}
       \/ field[1] \in {9, 10, 11, 12, 13, 32}

RECURSIVE csvQuotedLoop(_, _, _)
csvQuotedLoop(field, lo, hi) ==
    IF lo > hi THEN <<>>
    ELSE IF lo = hi THEN (IF field[lo] = 34 THEN <<34, 34>> ELSE <<field[lo]>>)
    ELSE LET mid == (lo + hi) \div 2
         IN csvQuotedLoop(field, lo, mid) \o csvQuotedLoop(field, mid + 1, hi)

csvFieldText(field) ==
    IF fieldNeedsQuotes(field)
    THEN <<34>> \o csvQuotedLoop(field, 1, Len(field)) \o <<34>>
    ELSE field

\* csv.Writer.Write(record): the fields separated by commas, then "\n"
csvRecord(rec) == Join([i \in 1..Len(rec) |-> csvFieldText(rec[i])], <<44>>) \o <<10>>

\* bufio.Writer: p is added to the buffered bytes buf; whenever p does not fit
\* the buffer is filled and written to the sink, and a failed write is kept
\* as the writer's error, after which nothing is accepted.  (Every field is
\* shorter than the buffer.)  Yields the buffer, the error and the writes.
RECURSIVE bufioWrite(_, _, _, _)
bufioWrite(buf, p, err, sinkOk) ==
    IF err THEN [buf |-> buf, err |-> TRUE, writes |-> <<>>, ok |-> <<>>]
    ELSE IF Len(p) <= BufioSize - Len(buf)
    THEN [buf |-> buf \o p, err |-> FALSE, writes |-> <<>>, ok |-> <<>>]
    ELSE LET fill == BufioSize - Len(buf)
             full == buf \o SubSeq(p, 1, fill)
             rest == bufioWrite(<<>>, SubSeq(p, fill + 1, Len(p)), FALSE, sinkOk)
         IN IF sinkOk
            THEN [rest EXCEPT !.writes = <<full>> \o @, !.ok = <<TRUE>> \o @]
            ELSE [buf |-> full, err |-> TRUE, writes |-> <<full>>, ok |-> <<FALSE>>]

\* The log of the sink after the writes w of a bufio.Writer made at line at
BufioLog(o, w, at) ==
    o \o [i \in 1..Len(w.writes) |->
            [data |-> <<Chunk("csv", w.writes[i], <<>>)>>, at |-> at, ok |-> w.ok[i]]]

\* Lines 236-248
CsvBegin ==
    /\ pc = "csv"
    /\ result' = NoValues
    /\ csvBuf' = <<>>
    /\ csvErr' = FALSE
    /\ pc' = "csv_next"
    /\ UNCHANGED <<format, sqlParams, fetched, nextCalls, cursorErr, sqlBuffer,
                   printComa, mapped, record, out, ret, outAtCursorErr,
                   nextAtSinkErr, escIn, escOut, sources, options>>

\* Line 249: rows.Next()
CsvNext ==
    /\ pc = "csv_next"
    /\ CursorNext("csv_row", "csv_end")
    /\ UNCHANGED <<format, sqlParams, result, sqlBuffer, printComa, mapped, record,
                   csvBuf, csvErr, out, ret, nextAtSinkErr, escIn, escOut, sources, options>>

\* Lines 250-268: the body of the row loop
CsvRow ==
    /\ pc = "csv_row"
    /\ \/ /\ ScanFails
          /\ UNCHANGED <<result, record, csvBuf, csvErr, out, nextAtSinkErr>>
       \/ /\ result' = CurrentRow
          /\ record' = [i \in 1..Len(columns) |-> csvField(CurrentRow[i])]
          /\ \E sinkOk \in (IF SinkBroken(out) THEN {FALSE} ELSE BOOLEAN) :
                LET w == bufioWrite(csvBuf, csvRecord(record'), csvErr, sinkOk)
                IN /\ csvBuf' = w.buf
                   /\ csvErr' = w.err
                   /\ out' = BufioLog(out, w, 268)
                   /\ nextAtSinkErr' = SinkErrSeen(out')
          /\ pc' = "csv_next"
          /\ UNCHANGED <<cursorErr, outAtCursorErr, ret>>
    /\ UNCHANGED <<format, sqlParams, fetched, nextCalls, sqlBuffer, printComa, mapped,
                   escIn, escOut, sources, options>>

\* Variant of CsvEnd without the call of csvWriter.Flush().
CsvEndNoFlush ==
    /\ pc = "csv_end"
    /\ ret' = IF csvErr THEN "write error" ELSE "nil"
    /\ pc' = "done"
    /\ UNCHANGED <<format, sqlParams, fetched, nextCalls, cursorErr, result, sqlBuffer,
                   printComa, mapped, record, csvBuf, csvErr, out, nextAtSinkErr,
                   outAtCursorErr, escIn, escOut, sources, options>>

\* Lines 270-278: csvWriter.Flush(), then csvWriter.Error()
CsvEnd ==
    /\ pc = "csv_end"
    /\ IF csvErr \/ Len(csvBuf) = 0
       THEN UNCHANGED <<csvBuf, csvErr, out, nextAtSinkErr>>
       ELSE \E f \in Outcomes(out, 1) :
               /\ out' = WriteAll(out, <<Item(<<Chunk("csv", csvBuf, <<>>)>>, 270)>>, f)
               /\ nextAtSinkErr' = SinkErrSeen(out')
               /\ csvBuf' = IF f = 1 THEN <<>> ELSE csvBuf
               /\ csvErr' = (f = 0)
    /\ ret' = IF csvErr' THEN "write error" ELSE "nil"
    /\ pc' = "done"
    /\ UNCHANGED <<format, sqlParams, fetched, nextCalls, cursorErr, result, sqlBuffer,
                   printComa, mapped, record, outAtCursorErr, escIn, escOut, sources, options>>

---------------------------------------------------------------------------
(* The program *)

Init ==
    /\ pc = "main"
    /\ format = ""
    /\ alias = <<>>
    /\ insertIgnore = FALSE
    /\ onDuplicateKeyUpdate = FALSE
    /\ batchSize = 0
    /\ fetched = <<>>
    /\ nextCalls = 0
    /\ cursorErr = ""
    /\ result = <<>>
    /\ sqlBuffer = <<>>
    /\ printComa = FALSE
    /\ mapped = <<>>
    /\ record = <<>>
    /\ csvBuf = <<>>
    /\ csvErr = FALSE
    /\ out = <<>>
    /\ ret = ""
    /\ outAtCursorErr = -1
    /\ nextAtSinkErr = -1
    /\ escIn = <<>>
    /\ escOut = <<>>
    /\ sources = <<>>
    /\ options = <<>>

Next ==
    \/ FormatMissing
    \/ DispatchJson
    \/ DispatchCsv
    \/ DispatchSql
    \/ DispatchUnknown
    \/ SqlBegin
    \/ SqlNext
    \/ SqlRow
    \/ SqlEnd
    \/ JsonBegin
    \/ JsonNext
    \/ JsonRow
    \/ JsonEnd
    \/ CsvBegin
    \/ CsvNext
    \/ CsvRow
    \/ CsvEnd

Spec == Init /\ [][Next]_vars

\* The program is one goroutine: as long as it has not returned, its next
\* step is taken.
SpecLive == Spec /\ WF_vars(Next)

---------------------------------------------------------------------------
(* escapeString on its own: every byte string up to MaxLen over the bytes  *)
(* it rewrites, the letters it rewrites them to, and an ordinary byte      *)

\* NUL, LF, CR, backslash, single quote, double quote, 0x1A, 0, n, r, Z, a
EscapeAlphabet == {0, 10, 13, 92, 39, 34, 26, 48, 110, 114, 90, 97}

InitEscape ==
    /\ pc = "escape"
    /\ escIn \in SeqsUpTo(EscapeAlphabet, MaxLen)
    /\ escOut = <<>>
    /\ sources = <<>>
    /\ options = <<>>
    /\ format = ""
    /\ alias = <<>>
    /\ insertIgnore = FALSE
    /\ onDuplicateKeyUpdate = FALSE
    /\ batchSize = 0
    /\ fetched = <<>>
    /\ nextCalls = 0
    /\ cursorErr = ""
    /\ result = <<>>
    /\ sqlBuffer = <<>>
    /\ printComa = FALSE
    /\ mapped = <<>>
    /\ record = <<>>
    /\ csvBuf = <<>>
    /\ csvErr = FALSE
    /\ out = <<>>
    /\ ret = ""
    /\ outAtCursorErr = -1
    /\ nextAtSinkErr = -1

\* Lines 94-130
EscapeString ==
    /\ pc = "escape"
    /\ escOut' = escapeString(escIn)
    /\ pc' = "escaped"
    /\ UNCHANGED <<format, sqlParams, fetched, nextCalls, cursorErr, result, sqlBuffer,
                   printComa, mapped, record, csvBuf, csvErr, out, ret,
                   outAtCursorErr, nextAtSinkErr, escIn, sources, options>>

NextEscape == EscapeString

SpecEscape == InitEscape /\ [][NextEscape]_vars

---------------------------------------------------------------------------
(* getDbOptions: the connection options and their sources *)

\* MysqlOptions (lines 23-31); a string field is a string, Port a uint16
MysqlOptions(host, user, password, database, port, charset, timezone) ==
    [Host |-> host, User |-> user, Password |-> password, Database |-> database,
     Port |-> port, Charset |-> charset, Timezone |-> timezone]

\* Variant of Extend that copies every field of extra, empty or not.
ExtendOverwriting(opts, extra) == extra

\* Lines 33-55
Extend(opts, extra) ==
    MysqlOptions(IF extra.Host # "" THEN extra.Host ELSE opts.Host,
                 IF extra.User # "" THEN extra.User ELSE opts.User,
                 IF extra.Password # "" THEN extra.Password ELSE opts.Password,
                 IF extra.Database # "" THEN extra.Database ELSE opts.Database,
                 IF extra.Port # 0 THEN extra.Port ELSE opts.Port,
                 IF extra.Charset # "" THEN extra.Charset ELSE opts.Charset,
                 IF extra.Timezone # "" THEN extra.Timezone ELSE opts.Timezone)

\* strconv.ParseUint(s, 10, 16) of the ASCII bytes s: the number the decimal
\* digits stand for, or an error (no digit, another byte, more than 65535)
RECURSIVE DecimalValue(_)
DecimalValue(s) ==
    IF s = <<>> THEN 0 ELSE 10 * DecimalValue(SubSeq(s, 1, Len(s) - 1)) + (s[Len(s)] - 48)

ParseUint(s) ==
    IF s = <<>> \/ \E i \in DOMAIN s : s[i] \notin 48..57
    THEN [err |-> TRUE, value |-> 0]
    ELSE IF DecimalValue(s) >= 2^16
    THEN [err |-> TRUE, value |-> 2^16 - 1]
    ELSE [err |-> FALSE, value |-> DecimalValue(s)]

\* An options file: it cannot be loaded ("unreadable"), has no [client]
\* section ("nosection"), or gives the keys of that section (a key that is
\* not there reads as the empty string); "absent" is the file that does not
\* exist, which only the default file may be.
OptionsFile(state, host, user, password, database, port) ==
    [state |-> state, host |-> host, user |-> user, password |-> password,
     database |-> database, port |-> port]

\* Lines 57-85: the options of a file, or an error
ParseOptionsFile(file) ==
    IF file.state # "ok"
    THEN [err |-> TRUE, value |-> MysqlOptions("", "", "", "", 0, "", "")]
    ELSE LET port == IF file.port # <<>> THEN ParseUint(file.port)
                     ELSE [err |-> FALSE, value |-> 0]
         IN [err |-> port.err,
             value |-> MysqlOptions(file.host, file.user, file.password,
                                    file.database, port.value, "", "")]

\* Lines 157-192: the options and the error returned
getDbOptions(src) ==
    LET builtin == MysqlOptions("localhost", "", "", "", 3306, "", "")
        default == ParseOptionsFile(src.myCnf)
        useDefault == src.myCnf.state # "absent"
        o1 == IF useDefault THEN Extend(builtin, default.value) ELSE builtin
        extra == ParseOptionsFile(src.configFile)
        useExtra == src.configFile.state # "none"
        o2 == IF useExtra THEN Extend(o1, extra.value) ELSE o1
        argv == MysqlOptions(src.host, src.user, "", src.database, src.port, "utf8", "")
    IN IF useDefault /\ default.err THEN [err |-> TRUE, value |-> <<>>]
       ELSE IF useExtra /\ extra.err THEN [err |-> TRUE, value |-> <<>>]
       ELSE [err |-> FALSE, value |-> Extend(o2, argv)]

\* The files $HOME/.my.cnf may be
DefaultFiles ==
    { OptionsFile(s, "", "", "", "", <<>>) : s \in {"absent", "unreadable", "nosection"} }
    \cup { OptionsFile("ok", h, u, p, d, n) :
             h \in {"", "dhost"}, u \in {"", "duser"}, p \in {"", "dpass"},
             d \in {"", "ddb"}, n \in {<<>>, <<51, 51, 48, 55>>, <<120>>} }

\* The files --config-file may name ("none": the option is not given)
ConfigFiles ==
    { OptionsFile(s, "", "", "", "", <<>>) : s \in {"none", "unreadable"} }
    \cup { OptionsFile("ok", h, u, p, d, n) :
             h \in {"", "chost"}, u \in {"", "cuser"}, p \in {"", "cpass"},
             d \in {"", "cdb"}, n \in {<<>>, <<51, 51, 48, 56>>, <<48>>} }

InitOptions ==
    /\ pc = "options"
    /\ sources \in [myCnf : DefaultFiles, configFile : ConfigFiles,
                    host : {"", "ahost"}, user : {"", "auser"},
                    database : {"", "adb"}, port : {0, 3309}]
    /\ options = <<>>
    /\ escIn = <<>>
    /\ escOut = <<>>
    /\ format = ""
    /\ alias = <<>>
    /\ insertIgnore = FALSE
    /\ onDuplicateKeyUpdate = FALSE
    /\ batchSize = 0
    /\ fetched = <<>>
    /\ nextCalls = 0
    /\ cursorErr = ""
    /\ result = <<>>
    /\ sqlBuffer = <<>>
    /\ printComa = FALSE
    /\ mapped = <<>>
    /\ record = <<>>
    /\ csvBuf = <<>>
    /\ csvErr = FALSE
    /\ out = <<>>
    /\ ret = ""
    /\ outAtCursorErr = -1
    /\ nextAtSinkErr = -1

\* Lines 438-448: the call of getDbOptions
GetDbOptions ==
    /\ pc = "options"
    /\ LET got == getDbOptions(sources)
       IN /\ options' = got.value
          /\ ret' = IF got.err THEN "options error" ELSE "nil"
    /\ pc' = "options_done"
    /\ UNCHANGED <<format, sqlParams, fetched, nextCalls, cursorErr, result, sqlBuffer,
                   printComa, mapped, record, csvBuf, csvErr, out, outAtCursorErr,
                   nextAtSinkErr, escIn, escOut, sources>>

NextOptions == GetDbOptions

SpecOptions == InitOptions /\ [][NextOptions]_vars

---------------------------------------------------------------------------
(* Properties *)

Range(f) == {f[x] : x \in DOMAIN f}

\* The tuple of each row the cursor may deliver, rendered once
RenderedRow == [row \in RowChoices |-> renderTuple(row)]

\* The writes of INSERT statements: line 372 (inside the row loop) and
\* line 386 (after it)
IsStatement(w) == w.at \in {372, 386}
Statements(o) == SelectSeq(o, IsStatement)

TuplesOf(data) == SelectSeq(data, LAMBDA c : c.k = "tuple")

RECURSIVE AllTuples(_)
AllTuples(ws) == IF ws = <<>> THEN <<>> ELSE TuplesOf(Head(ws).data) \o AllTuples(Tail(ws))

RECURSIVE AllBytes(_)
AllBytes(chunks) == IF chunks = <<>> THEN <<>> ELSE Head(chunks).b \o AllBytes(Tail(chunks))

\* The bytes of a statement before it is closed (lines 368-371, 382-385)
OpenLen(data) ==
    SumLen(SelectSeq(data, LAMBDA c : c.k \notin {"onduplicate", "terminator"}))

EndsWith(bytes, suffix) ==
    /\ Len(bytes) >= Len(suffix)
    /\ SubSeq(bytes, Len(bytes) - Len(suffix) + 1, Len(bytes)) = suffix

\* C1: every statement written from inside the row loop (line 372) is at
\* least 1024 * batchSize bytes long, already before it is closed; only the
\* statement written after the loop (line 386) may be shorter.
C1_LoopFlushReachesThreshold ==
    \A i \in DOMAIN out :
        out[i].at = 372 =>
            /\ OpenLen(out[i].data) >= 1024 * batchSize
            /\ SumLen(out[i].data) >= 1024 * batchSize

\* A statement of two tuples was written from inside the loop under a
\* threshold of 2048 bytes, and a shorter one after the loop.
C1_Witness ==
    /\ batchSize = 2
    /\ pc = "done"
    /\ \E i \in DOMAIN out :
          out[i].at = 372 /\ Len(TuplesOf(out[i].data)) = 2
    /\ \E i \in DOMAIN out :
          out[i].at = 386 /\ SumLen(out[i].data) < 1024 * batchSize

\* C2: when the cursor has failed (in rows.Next or in rows.Scan), the encoder
\* returns an error and has written nothing after the failure.
C2_CursorFailureAborts ==
    (pc = "done" /\ cursorErr # "") =>
        /\ ret # "nil"
        /\ Len(out) = outAtCursorErr

\* C3: when a write to the sink has failed, the encoder returns an error, has
\* asked the cursor for no further row and has made no further write.
C3_SinkFailureAborts ==
    (pc = "done" /\ SinkBroken(out)) =>
        /\ ret # "nil"
        /\ nextCalls = nextAtSinkErr
        /\ \A i \in DOMAIN out : ~out[i].ok => i = Len(out)

\* C4: with the SQL format and an empty alias, outSql returns the alias error
\* having called rows.Next not once and written nothing, whatever the other
\* options.
C4_EmptyAliasRejectedFirst ==
    (format = "sql" /\ alias = <<>>) =>
        /\ pc \in {"sql", "done"}
        /\ nextCalls = 0
        /\ fetched = <<>>
        /\ out = <<>>
        /\ pc = "done" => ret = "alias required"

\* outSql has returned on an empty alias, the other options being set.
C4_Witness ==
    /\ format = "sql"
    /\ alias = <<>>
    /\ pc = "done"
    /\ ret = "alias required"
    /\ insertIgnore
    /\ onDuplicateKeyUpdate
    /\ batchSize = 1

\* C5: with a format other than json, csv and sql, mysqlquerydump returns an
\* error without running an encoder (no Scan destinations, no map, no
\* buffer), without calling rows.Next and without writing.
C5_UnknownFormatRejected ==
    (pc # "main" /\ format \notin {"json", "csv", "sql"}) =>
        /\ pc = "done"
        /\ ret \in {"format required", "unknown format"}
        /\ nextCalls = 0
        /\ fetched = <<>>
        /\ out = <<>>
        /\ result = <<>>
        /\ mapped = <<>>
        /\ sqlBuffer = <<>>
        /\ csvBuf = <<>>

\* The format xml has been rejected.
C5_Witness ==
    /\ format = "xml"
    /\ pc = "done"
    /\ ret = "unknown format"

\* C6: when outSql has returned nil, the tuples of the statements the sink
\* has received, in order, are the tuples of the rows the cursor delivered,
\* in order.
C6_TuplesAreTheRows ==
    (format = "sql" /\ pc = "done" /\ ret = "nil") =>
        LET received == AllTuples(SelectSeq(out, LAMBDA w : IsStatement(w) /\ w.ok))
        IN /\ Len(received) = Len(fetched)
           /\ \A k \in DOMAIN received : received[k] = RenderedRow[fetched[k]]

\* C7: with the option on, every statement written (line 372 or 386) holds
\* the ON DUPLICATE KEY UPDATE clause once, after the last tuple and just
\* before the terminator; with the option off, no statement holds it.
C7_OnDuplicateClause ==
    \A i \in DOMAIN out :
        IsStatement(out[i]) =>
            LET d == out[i].data
                n == Len(d)
                clauses == {j \in DOMAIN d : d[j].k = "onduplicate"}
            IN IF onDuplicateKeyUpdate
               THEN /\ n >= 4
                    /\ clauses = {n - 1}
                    /\ d[n - 1].b = onDuplicateStatement
                    /\ d[n - 2].k = "tuple"
                    /\ d[n].k = "terminator"
                    /\ EndsWith(AllBytes(d),
                                d[n - 2].b \o onDuplicateStatement \o StatementTerminator)
               ELSE /\ clauses = {}
                    /\ d[n - 1].k = "tuple"
                    /\ EndsWith(AllBytes(d), d[n - 1].b \o StatementTerminator)

\* With the option on, a statement was written from inside the loop and
\* another after it.
C7_Witness ==
    /\ onDuplicateKeyUpdate
    /\ pc = "done"
    /\ \E i \in DOMAIN out : out[i].at = 372
    /\ \E i \in DOMAIN out : out[i].at = 386

PreambleLines == {324, 325, 326, 327, 330}
PostambleLines == {389, 391, 392, 393}
Lines(o) == [i \in DOMAIN o |-> o[i].at]

\* C8 as claimed: every outSql run that writes anything writes the preamble
\* once, first, and the postamble once, last, however it ends.
C8_PreambleAndPostambleAlways ==
    (format = "sql" /\ pc = "done" /\ out # <<>>) =>
        /\ Len(out) >= 9
        /\ SubSeq(Lines(out), 1, 5) = <<324, 325, 326, 327, 330>>
        /\ SubSeq(Lines(out), Len(out) - 3, Len(out)) = <<389, 391, 392, 393>>
        /\ \A i \in 6..(Len(out) - 4) : IsStatement(out[i])

\* C8 as amended: an outSql run that gets past the alias check makes the
\* preamble's writes once, before every statement; when the row loop has
\* ended (outSql returns nil) it has made the postamble's writes once, after
\* every statement; a run ended by an error of rows.Scan makes none of them.
C8_PreambleOncePostambleAtLoopEnd ==
    (format = "sql" /\ pc \notin {"main", "sql"} /\ alias # <<>>) =>
        /\ Len(out) >= 5
        /\ SubSeq(Lines(out), 1, 5) = <<324, 325, 326, 327, 330>>
        /\ \A i \in 1..5 : out[i].data = Preamble[i].data
        /\ IF pc = "done" /\ ret = "nil"
           THEN /\ Len(out) >= 9
                /\ SubSeq(Lines(out), Len(out) - 3, Len(out)) = <<389, 391, 392, 393>>
                /\ \A i \in 1..4 : out[Len(out) - 4 + i].data = Postamble[i].data
                /\ \A i \in 6..(Len(out) - 4) : IsStatement(out[i])
           ELSE \A i \in 6..Len(out) : IsStatement(out[i])

\* outSql has returned nil after three statements, and the nine other writes
\* are there.
C8_Witness ==
    /\ format = "sql"
    /\ pc = "done"
    /\ ret = "nil"
    /\ Len(Statements(out)) = 3
    /\ Len(out) = 12

---------------------------------------------------------------------------
(* The reading of a string literal (MySQL, backslash escapes on) *)

\* What the parser makes of a backslash followed by the byte c: \0 is NUL,
\* \b backspace, \n LF, \r CR, \t TAB, \Z 0x1A; \% and \_ keep the backslash;
\* before any other byte the backslash is dropped.
sqlUnescapeByte(c) ==
    CASE c = 48 -> <<0>>
      [] c = 98 -> <<8>>
      [] c = 110 -> <<10>>
      [] c = 114 -> <<13>>
      [] c = 116 -> <<9>>
      [] c = 90 -> <<26>>
      [] c \in {37, 95} -> <<92, c>>
      [] OTHER -> <<c>>

\* The content s of a single-quoted literal read from its byte i on: the
\* bytes it stands for, and whether s is well formed (a bare single quote
\* would end the literal early, a backslash at the end would swallow the
\* closing quote).
RECURSIVE sqlUnescapeFrom(_, _)
sqlUnescapeFrom(s, i) ==
    IF i > Len(s) THEN [ok |-> TRUE, bytes |-> <<>>]
    ELSE IF s[i] = 92
    THEN IF i = Len(s) THEN [ok |-> FALSE, bytes |-> <<>>]
         ELSE LET rest == sqlUnescapeFrom(s, i + 2)
              IN [ok |-> rest.ok, bytes |-> sqlUnescapeByte(s[i + 1]) \o rest.bytes]
    ELSE IF s[i] = 39 THEN [ok |-> FALSE, bytes |-> <<>>]
    ELSE LET rest == sqlUnescapeFrom(s, i + 1)
         IN [ok |-> rest.ok, bytes |-> <<s[i]>> \o rest.bytes]

sqlUnescape(s) == sqlUnescapeFrom(s, 1)

\* escapeString of every byte string of the alphabet up to MaxLen
EscapeTable == [b \in SeqsUpTo(EscapeAlphabet, MaxLen) |-> escapeString(b)]

\* No two of these byte strings have the same escaped form
EscapeInjective ==
    Cardinality({EscapeTable[b] : b \in DOMAIN EscapeTable})
        = Cardinality(DOMAIN EscapeTable)

\* C9: the slice escapeString returns is a well-formed literal content that
\* reads back as the argument; escaping what was read back gives the same
\* slice again; no two byte strings of the alphabet up to MaxLen escape to
\* the same slice; and the loop never writes outside newBytes.
C9_EscapeRoundTrip ==
    pc = "escaped" =>
        /\ ~escapeRun(escIn).panic
        /\ sqlUnescape(escOut).ok
        /\ sqlUnescape(escOut).bytes = escIn
        /\ escapeString(sqlUnescape(escOut).bytes) = escOut
        /\ EscapeTable[escIn] = escOut
        /\ EscapeInjective

\* escapeString has been applied to a backslash, the letter n and a single
\* quote: read without the backslash's own escape, the result would hold a
\* line feed.
C9_Witness ==
    /\ pc = "escaped"
    /\ escIn = <<92, 110, 39>>
    /\ escOut = <<92, 92, 110, 92, 39>>

---------------------------------------------------------------------------
(* NULL cells in the three encoders *)

\* The rows whose processing by the loop body is complete
Processed ==
    IF pc \in {"sql_row", "json_row", "csv_row"} \/ cursorErr = "scan"
    THEN Len(fetched) - 1
    ELSE Len(fetched)

\* outSql: the tuples rendered so far, those of the statements written and
\* those still in the buffer
RenderedTuples ==
    AllTuples(Statements(out))
    \o (IF \E i \in DOMAIN out : out[i].at = 386 THEN <<>> ELSE TuplesOf(sqlBuffer))

\* outJson: the objects written so far
JsonLines == SelectSeq(out, LAMBDA w : w.at = 228)

\* outCsv: the bytes handed to the csv.Writer so far, while nothing was lost
CsvStream == AllBytes([i \in DOMAIN out |-> out[i].data[1]]) \o csvBuf

\* The text a CSV field must have for a cell: nothing for a NULL
CsvExpectedField(value) ==
    IF value = NilValue THEN <<>> ELSE csvFieldText(csvField(value))

RECURSIVE CsvExpected(_)
CsvExpected(n) ==
    IF n = 0 THEN <<>>
    ELSE CsvExpected(n - 1)
         \o Join([i \in 1..Len(columns) |-> CsvExpectedField(fetched[n][i])], <<44>>)
         \o <<10>>

\* C10: at every position of every row processed, a NULL cell is the bare
\* keyword NULL in the row's SQL tuple (and nothing else is), the empty field
\* in the row's CSV record, and null in the row's JSON object; the tuple and
\* the object are built from exactly these renderings.
C10_NullRendering ==
    /\ format = "sql" =>
          /\ Len(RenderedTuples) = (IF alias = <<>> \/ pc = "sql" THEN 0 ELSE Processed)
          /\ \A k \in DOMAIN RenderedTuples :
                LET t == RenderedTuples[k]
                IN /\ Len(t.parts) = Len(columns)
                   /\ t.b = <<40>> \o Join(t.parts, <<44, 32>>) \o <<41>>
                   /\ \A i \in DOMAIN t.parts :
                         (fetched[k][i] = NilValue) <=> (t.parts[i] = NullKeyword)
    /\ format = "csv" =>
          /\ (Processed >= 1 /\ pc # "csv") =>
                \A i \in 1..Len(columns) :
                    fetched[Processed][i] = NilValue => record[i] = <<>>
          /\ (pc # "csv" /\ ~csvErr /\ ~SinkBroken(out)) =>
                CsvStream = CsvExpected(Processed)
    /\ format = "json" =>
          /\ Len(JsonLines) = (IF pc = "json" THEN 0 ELSE Processed)
          /\ \A k \in DOMAIN JsonLines :
                LET o == JsonLines[k].data[1]
                IN /\ Len(o.parts) = Len(columns)
                   /\ o.b = <<123>>
                            \o Join([j \in DOMAIN o.parts |->
                                        jsonString(o.parts[j][1]) \o <<58>> \o o.parts[j][2]],
                                    <<44>>)
                            \o <<125>>
                   /\ \A i \in 1..Len(columns) :
                         fetched[k][i] = NilValue =>
                             \E j \in DOMAIN o.parts :
                                 o.parts[j] = <<columns[i], <<110, 117, 108, 108>>>>

\* outSql has rendered two rows, the second of which is NULL where the first
\* held a number and a text.
C10_Witness ==
    /\ format = "sql"
    /\ Len(RenderedTuples) = 2
    /\ fetched[1][1] = Int64Value(12)
    /\ fetched[2][1] = NilValue
    /\ fetched[1][2] # NilValue
    /\ fetched[2][2] = NilValue
    /\ RenderedTuples[2].parts[1] = NullKeyword

---------------------------------------------------------------------------
(* outJson: the keys and values of every line *)

\* The JSON text a cell must have in its row's object
JsonExpected(value) ==
    CASE value.t = "bytes" -> jsonString(value.b)
      [] value.t = "nil" -> <<110, 117, 108, 108>>
      [] OTHER -> Sprintf(value)

\* C11: the object written for row k has the columns as its keys, each once,
\* and the value of each key is the JSON text of row k's cell for that
\* column, whatever the map held from the rows before.
C11_JsonLineIsItsRow ==
    format = "json" =>
        \A k \in DOMAIN JsonLines :
            LET o == JsonLines[k].data[1]
            IN /\ k <= Len(fetched)
               /\ Len(o.parts) = Len(columns)
               /\ {o.parts[j][1] : j \in DOMAIN o.parts} = Range(columns)
               /\ \A i \in 1..Len(columns) :
                     \E j \in DOMAIN o.parts :
                         o.parts[j] = <<columns[i], JsonExpected(fetched[k][i])>>

\* outJson has written two lines for two rows that differ at every position,
\* the second being NULL where the first held a value.
C11_Witness ==
    /\ format = "json"
    /\ Len(JsonLines) = 2
    /\ \A i \in 1..Len(columns) : fetched[1][i] # fetched[2][i]
    /\ fetched[1][1] = Int64Value(12)
    /\ fetched[2][1] = NilValue

---------------------------------------------------------------------------
(* outSql: how far a statement written inside the loop passes the threshold *)

\* The bytes of the last tuple of a statement: the tuple of the row at which
\* the test of line 367 succeeded
LastTupleLen(data) == Len(TuplesOf(data)[Len(TuplesOf(data))].b)

\* The bytes by which the buffer passed the threshold at the test of line 367
Excess(data) == OpenLen(data) - 1024 * batchSize

\* C12 as claimed: with a threshold of zero or more, a statement written
\* inside the loop passes the threshold by at most the bytes of the tuple of
\* the row that triggered the flush.
C12_ExcessAtMostOneTuple ==
    \A i \in DOMAIN out :
        (out[i].at = 372 /\ batchSize >= 0) =>
            Excess(out[i].data) <= LastTupleLen(out[i].data)

\* C12 as amended: the buffer also holds the insert header, and the separator
\* before every tuple but the first.  A statement of one tuple passes the
\* threshold by at most the header and the tuple; a statement of several
\* tuples by at most the tuple and one byte (the buffer was below the
\* threshold before the two bytes of the separator and the tuple were added).
C12_ExcessAtMostHeaderAndTuple ==
    \A i \in DOMAIN out :
        (out[i].at = 372 /\ batchSize >= 0) =>
            LET d == out[i].data
            IN /\ Excess(d) >= 0
               /\ Excess(d) <= Len(insertHeader(alias, insertIgnore)) + LastTupleLen(d)
               /\ Len(TuplesOf(d)) > 1 => Excess(d) <= LastTupleLen(d) + 1

\* Under a threshold of zero the second row has been flushed on its own: the
\* buffer held the header and the tuple, more than the tuple alone.
C12_Witness ==
    /\ batchSize = 0
    /\ Len(fetched) = 2
    /\ Len(Statements(out)) = 2
    /\ \A i \in DOMAIN out :
          out[i].at = 372 =>
              /\ Excess(out[i].data)
                    = Len(insertHeader(alias, insertIgnore)) + LastTupleLen(out[i].data)
              /\ Excess(out[i].data) > LastTupleLen(out[i].data)

---------------------------------------------------------------------------
(* outSql: the row at which a statement is flushed *)

\* The threshold in bytes, as the properties state it
Threshold == 1024 * batchSize

\* The number of tuples of each statement written, in order
TupleCounts == [i \in DOMAIN Statements(out) |-> Len(TuplesOf(Statements(out)[i].data))]

\* The bytes of the buffer once rows 1..n of the cursor are in it (the
\* header, the tuples, a separator between two tuples)
RECURSIVE BatchLen(_)
BatchLen(n) ==
    IF n = 0 THEN 0
    ELSE IF n = 1 THEN Len(insertHeader(alias, insertIgnore)) + Len(RenderedRow[fetched[1]].b)
    ELSE BatchLen(n - 1) + Len(TupleSeparator) + Len(RenderedRow[fetched[n]].b)

\* outSql has returned nil after three rows, the cursor never having failed
ThreeRowsDumped ==
    /\ format = "sql"
    /\ pc = "done"
    /\ ret = "nil"
    /\ cursorErr = ""
    /\ Len(fetched) = 3

\* C13 as claimed: when two rows fit below the threshold and the third does
\* not, three rows are written as a statement of two tuples and a statement
\* of one.
C13_TwoFitBelowThenTwoAndOne ==
    (ThreeRowsDumped /\ BatchLen(2) < Threshold /\ BatchLen(3) >= Threshold) =>
        TupleCounts = <<2, 1>>

\* C13 as amended: a row is appended to the buffer only when the buffer is
\* empty or shorter than the threshold; a statement written inside the loop
\* had not reached the threshold before its last tuple was appended, and the
\* statement written after the loop never reached it; so when the first row
\* stays below the threshold and the second reaches it, three rows are
\* written as a statement of two tuples and a statement of one.
C13_FlushAtFirstRowReachingThreshold ==
    /\ (format = "sql" /\ pc \in {"sql_next", "sql_row"}) =>
          (BufLen(sqlBuffer) = 0 \/ BufLen(sqlBuffer) < Threshold)
    /\ \A i \in DOMAIN out :
          /\ out[i].at = 372 =>
                LET d == out[i].data
                IN /\ OpenLen(d) >= Threshold
                   /\ Len(TuplesOf(d)) > 1 =>
                         OpenLen(d) - LastTupleLen(d) - Len(TupleSeparator) < Threshold
          /\ out[i].at = 386 => OpenLen(out[i].data) < Threshold
    /\ (ThreeRowsDumped /\ BatchLen(1) < Threshold /\ BatchLen(2) >= Threshold) =>
          TupleCounts = <<2, 1>>

\* Three rows have been dumped of which the first stayed below the threshold
\* and the second reached it: a statement of two tuples, then one of one.
C13_Witness ==
    /\ ThreeRowsDumped
    /\ batchSize = 2
    /\ BatchLen(1) < Threshold
    /\ BatchLen(2) >= Threshold
    /\ TupleCounts = <<2, 1>>
    /\ Statements(out)[1].at = 372
    /\ Statements(out)[2].at = 386

---------------------------------------------------------------------------
(* outSql: the shape of a statement, the buffer and the comma flag *)

\* The chunks of a statement up to its last tuple are the header, a tuple,
\* and then a separator and a tuple any number of times
WellFormedStatement(d) ==
    LET m == 2 * Len(TuplesOf(d))
    IN /\ Len(TuplesOf(d)) >= 1
       /\ Len(d) \in {m + 1, m + 2}
       /\ d[1].k = "header"
       /\ d[1].b = insertHeader(alias, insertIgnore)
       /\ \A j \in 2..m :
             IF j % 2 = 0
             THEN d[j].k = "tuple"
             ELSE d[j].k = "separator" /\ d[j].b = TupleSeparator
       /\ \A j \in (m + 1)..Len(d) : d[j].k \in {"onduplicate", "terminator"}
       /\ d[Len(d)].k = "terminator"

\* Every row processed so far is in a statement already written
AllFlushed == Len(AllTuples(Statements(out))) = Processed

\* C14 as claimed: every statement is a header and one or more tuples with a
\* separator between two of them; no rows, no statement; and after every
\* flush, the one after the loop included, the buffer is empty and the comma
\* flag is false.
C14_StatementShapeAndResetAfterEveryFlush ==
    /\ \A i \in DOMAIN out : IsStatement(out[i]) => WellFormedStatement(out[i].data)
    /\ (format = "sql" /\ Processed = 0) => Statements(out) = <<>>
    /\ (format = "sql" /\ pc \in {"sql_next", "sql_row"}) =>
          (printComa <=> BufLen(sqlBuffer) > 0)
    /\ (format = "sql" /\ ~SinkBroken(out) /\ Statements(out) # <<>> /\ AllFlushed
            /\ pc \in {"sql_next", "sql_end", "done"}) =>
          (BufLen(sqlBuffer) = 0 /\ ~printComa)

\* C14 as amended: the same, but the comma flag is reset only by a flush
\* inside the loop (lines 372-375); the flush after the loop (line 386)
\* leaves the flag as it is, and the buffer empty when the write succeeds.
C14_StatementShapeAndResetInLoop ==
    /\ \A i \in DOMAIN out : IsStatement(out[i]) => WellFormedStatement(out[i].data)
    /\ (format = "sql" /\ Processed = 0) => Statements(out) = <<>>
    /\ (format = "sql" /\ pc \in {"sql_next", "sql_row"}) =>
          (printComa <=> BufLen(sqlBuffer) > 0)
    /\ (format = "sql" /\ Statements(out) # <<>> /\ AllFlushed
            /\ pc \in {"sql_next", "sql_end"}) =>
          (BufLen(sqlBuffer) = 0 /\ ~printComa)
    /\ (format = "sql" /\ pc = "done" /\ ret = "nil") =>
          /\ AllFlushed
          /\ ~SinkBroken(out) => BufLen(sqlBuffer) = 0
          /\ printComa <=> (\E i \in DOMAIN out : out[i].at = 386)

\* outSql has returned nil, every write having succeeded, after a statement
\* written inside the loop and one of two tuples written after it: the buffer
\* is empty and the comma flag is still set.
C14_Witness ==
    /\ format = "sql"
    /\ pc = "done"
    /\ ret = "nil"
    /\ ~SinkBroken(out)
    /\ TupleCounts = <<1, 2>>
    /\ Statements(out)[1].at = 372
    /\ Statements(out)[2].at = 386
    /\ BufLen(sqlBuffer) = 0
    /\ printComa

---------------------------------------------------------------------------
(* outSql: a batch size of zero or less *)

\* C15: with a batch size of zero or less, every row is written inside the
\* loop as a statement of its own, as soon as it has been appended: statement
\* k holds the tuple of row k and nothing else, the buffer is empty whenever
\* a row is awaited, and nothing is left to write after the loop.
C15_NonPositiveBatchFlushesEveryRow ==
    (format = "sql" /\ batchSize <= 0) =>
        /\ BufLen(sqlBuffer) = 0
        /\ ~printComa
        /\ Len(Statements(out)) = (IF alias = <<>> \/ pc = "sql" THEN 0 ELSE Processed)
        /\ LET written == Statements(out)
           IN \A k \in DOMAIN written :
                 /\ written[k].at = 372
                 /\ TuplesOf(written[k].data) = <<RenderedRow[fetched[k]]>>

\* Under a batch size of zero, and under one of -1, outSql has returned nil
\* after three rows written as three statements.
C15_Witness ==
    /\ format = "sql"
    /\ batchSize \in {0, -1}
    /\ pc = "done"
    /\ ret = "nil"
    /\ Len(fetched) = 3
    /\ TupleCounts = <<1, 1, 1>>

---------------------------------------------------------------------------
(* outSql: the end of a dump *)

\* The cursor delivering at most MaxRows rows, the program returns.
C16_Terminates == <>(pc = "done")

\* C16: when outSql has returned after the cursor was exhausted, the last
\* batch has been written, the buffer is empty, and the sink has received
\* the tuple of every row.
C16_ExhaustedMeansAllWritten ==
    (format = "sql" /\ pc = "done" /\ ret = "nil" /\ cursorErr = "") =>
        LET received == AllTuples(SelectSeq(out, LAMBDA w : IsStatement(w) /\ w.ok))
        IN /\ BufLen(sqlBuffer) = 0
           /\ Len(received) = Len(fetched)

\* The same with a sink that never fails: the final state is as claimed.
C16_ExhaustedMeansAllWrittenIfSinkWorks ==
    (format = "sql" /\ pc = "done" /\ ret = "nil" /\ cursorErr = "" /\ ~SinkBroken(out)) =>
        LET received == AllTuples(Statements(out))
        IN /\ BufLen(sqlBuffer) = 0
           /\ Len(received) = Len(fetched)
           /\ \A k \in DOMAIN received : received[k] = RenderedRow[fetched[k]]

---------------------------------------------------------------------------
(* escapeString: what the output is made of *)

\* The bytes the escaping rule rewrites
Escapable == {0, 10, 13, 92, 39, 34, 26}

\* What the escaping rule asks for one byte: a backslash and the letter for
\* NUL, LF, CR and 0x1A, a backslash and the byte itself for a backslash and
\* the two quotes, the byte alone otherwise
EscapedForm(c) ==
    CASE c = 0 -> <<92, 48>>
      [] c = 10 -> <<92, 110>>
      [] c = 13 -> <<92, 114>>
      [] c = 26 -> <<92, 90>>
      [] c \in {92, 39, 34} -> <<92, c>>
      [] OTHER -> <<c>>

\* The escaped forms of the bytes b[i..], one after the other
RECURSIVE EscapedFrom(_, _)
EscapedFrom(b, i) ==
    IF i > Len(b) THEN <<>> ELSE EscapedForm(b[i]) \o EscapedFrom(b, i + 1)

\* In the literal lit (an opening quote, a content, a closing quote) read
\* from its byte i on, the position of the quote that ends the literal: the
\* first single quote not taken by a backslash (0 if there is none)
RECURSIVE ClosingQuote(_, _)
ClosingQuote(lit, i) ==
    IF i > Len(lit) THEN 0
    ELSE IF lit[i] = 92 THEN ClosingQuote(lit, i + 2)
    ELSE IF lit[i] = 39 THEN i
    ELSE ClosingQuote(lit, i + 1)

\* C17: the slice escapeString returns holds no NUL, LF, CR or 0x1A; it is
\* the escaped forms of the argument's bytes in order (a backslash before
\* every quote and backslash, every other byte as it is); and the literal
\* made of it between single quotes ends at its last byte, not before.
C17_EscapedOutputIsSafe ==
    pc = "escaped" =>
        /\ \A j \in DOMAIN escOut : escOut[j] \notin {0, 10, 13, 26}
        /\ escOut = EscapedFrom(escIn, 1)
        /\ LET lit == Quote \o escOut \o Quote
           IN ClosingQuote(lit, 2) = Len(lit)

\* escapeString has been applied to an ordinary byte, a single quote and a
\* backslash at the end.
C17_Witness ==
    /\ pc = "escaped"
    /\ escIn = <<97, 39, 92>>
    /\ escOut = <<97, 92, 39, 92, 92>>

---------------------------------------------------------------------------
(* outCsv: the flush and the writer's error *)

\* The bytes the sink has received
CsvReceived == AllBytes([i \in DOMAIN out |-> out[i].data[1]])

\* The row loop has ended: the last rows.Next() returned false
LoopEnded == nextCalls = Len(fetched) + 1

---------------------------------------------------------------------------
(* getDbOptions: the precedence of the sources *)

\* The first value of vals that is not empty (the last one if all are)
RECURSIVE FirstSet(_, _)
FirstSet(vals, empty) ==
    IF Len(vals) = 1 \/ Head(vals) # empty THEN Head(vals) ELSE FirstSet(Tail(vals), empty)

\* What a file gives for a key: nothing when the file is not there
FileValue(file, key) == IF file.state = "ok" THEN file[key] ELSE ""

FilePort(file) ==
    IF file.state = "ok" /\ file.port # <<>> THEN ParseUint(file.port).value ELSE 0

\* A file that makes getDbOptions fail
FileFails(file) ==
    \/ file.state \in {"unreadable", "nosection"}
    \/ file.state = "ok" /\ file.port # <<>> /\ ParseUint(file.port).err

\* C19: getDbOptions fails exactly when a file it reads cannot be parsed;
\* otherwise every field of the options is the value of the source of
\* highest precedence that gives one (the arguments, then the file of
\* --config-file, then $HOME/.my.cnf, then localhost and 3306), an empty or
\* zero value never replacing a value, and the charset is utf8.
C19_OptionsPrecedence ==
    pc = "options_done" =>
        LET my == sources.myCnf
            cf == sources.configFile
        IN /\ ret = "options error" <=> (FileFails(my) \/ FileFails(cf))
           /\ ret = "nil" =>
                 /\ options.Host = FirstSet(<<sources.host, FileValue(cf, "host"),
                                              FileValue(my, "host"), "localhost">>, "")
                 /\ options.User = FirstSet(<<sources.user, FileValue(cf, "user"),
                                              FileValue(my, "user"), "">>, "")
                 /\ options.Password = FirstSet(<<FileValue(cf, "password"),
                                                  FileValue(my, "password"), "">>, "")
                 /\ options.Database = FirstSet(<<sources.database, FileValue(cf, "database"),
                                                  FileValue(my, "database"), "">>, "")
                 /\ options.Port = FirstSet(<<sources.port, FilePort(cf), FilePort(my), 3306>>, 0)
                 /\ options.Charset = "utf8"
                 /\ options.Timezone = ""

\* The host comes from $HOME/.my.cnf, the later sources giving none; the
\* user from the arguments, over the two files; the port from $HOME/.my.cnf,
\* the file of --config-file giving port 0 and the arguments none.
C19_Witness ==
    /\ pc = "options_done"
    /\ ret = "nil"
    /\ sources.myCnf.host = "dhost" /\ sources.configFile.state = "ok"
    /\ sources.configFile.host = "" /\ sources.host = ""
    /\ options.Host = "dhost"
    /\ sources.myCnf.user = "duser" /\ sources.configFile.user = "cuser"
    /\ sources.user = "auser"
    /\ options.User = "auser"
    /\ sources.myCnf.port = <<51, 51, 48, 55>> /\ sources.configFile.port = <<48>>
    /\ sources.port = 0
    /\ options.Port = 3307
    /\ options.Charset = "utf8"

---------------------------------------------------------------------------
(* escapeString: the write index *)

\* The number of bytes of b that the escaping rule rewrites
EscapableCount(b) == Cardinality({j \in DOMAIN b : b[j] \in Escapable})

\* C20: the loop of escapeString never writes at an index outside newBytes
\* (2 * len(input) bytes), its index ends at len(input) plus the number of
\* escapable bytes, which is the length of the slice returned; and the
\* argument is left as it was.
C20_WriteIndexInRange ==
    /\ [](pc = "escaped" =>
            /\ ~escapeRun(escIn).panic
            /\ escapeRun(escIn).i <= 2 * Len(escIn)
            /\ escapeRun(escIn).i = Len(escIn) + EscapableCount(escIn)
            /\ Len(escOut) = escapeRun(escIn).i)
    /\ [][escIn' = escIn]_vars

\* escapeString has been applied to three escapable bytes: the index has
\* reached the end of newBytes.
C20_Witness ==
    /\ pc = "escaped"
    /\ escIn = <<0, 39, 92>>
    /\ Len(escOut) = 2 * Len(escIn)

====
